---- MODULE Spec2Model ----
(***************************************************************************)
(* PLTR stock service: the ingestion script (data_ingestion.py) that loads *)
(* a CSV file into the table `stocks` of pltr.db, and the Flask API        *)
(* (routes.py) that reads it.                                              *)
(*                                                                         *)
(* Text is a sequence of one-character strings.  A float is an integer     *)
(* number of tenths (105 stands for 10.5); text with more than one         *)
(* fractional digit is outside the model's alphabet.                       *)
(***************************************************************************)
EXTENDS Integers, Sequences, FiniteSets, TLC

\* ------------------------------------------------------------------ bounds

\* Rows of a CSV file handed to one ingestion run.
MaxRows == 2

\* ------------------------------------------------------------------- text

Digits == {"0", "1", "2", "3", "4", "5", "6", "7", "8", "9"}

DigitVal(c) ==
    CASE c = "0" -> 0 [] c = "1" -> 1 [] c = "2" -> 2 [] c = "3" -> 3
      [] c = "4" -> 4 [] c = "5" -> 5 [] c = "6" -> 6 [] c = "7" -> 7
      [] c = "8" -> 8 [] c = "9" -> 9

\* Code point of a character of a date string ('-' sorts before the digits).
Ord(c) == IF c = "-" THEN 45 ELSE 48 + DigitVal(c)

RECURSIVE DigitsVal(_)
DigitsVal(s) ==
    IF s = <<>> THEN 0
    ELSE 10 * DigitsVal(SubSeq(s, 1, Len(s) - 1)) + DigitVal(s[Len(s)])

AllDigits(s) == \A i \in 1..Len(s) : s[i] \in Digits

Unsigned(s) == IF s # <<>> /\ s[1] \in {"-", "+"} THEN Tail(s) ELSE s

Sign(s) == IF s # <<>> /\ s[1] = "-" THEN -1 ELSE 1

\* Text that int() and the CSV parser's integer inference accept.
IsIntText(s) == Unsigned(s) # <<>> /\ AllDigits(Unsigned(s))

IntOfText(s) == Sign(s) * DigitsVal(Unsigned(s))

DotAt(u) == {i \in 1..Len(u) : u[i] = "."}

IntPart(u) ==
    IF DotAt(u) = {} THEN u ELSE SubSeq(u, 1, (CHOOSE i \in DotAt(u) : TRUE) - 1)

FracPart(u) ==
    IF DotAt(u) = {} THEN <<>>
    ELSE SubSeq(u, (CHOOSE i \in DotAt(u) : TRUE) + 1, Len(u))

\* Text that float() and the CSV parser's float inference accept: an optional
\* sign, digits, an optional point, digits (at most one digit after the point
\* here, the model counting in tenths).
IsFloatText(s) ==
    LET u == Unsigned(s) IN
    /\ Cardinality(DotAt(u)) <= 1
    /\ AllDigits(IntPart(u))
    /\ AllDigits(FracPart(u))
    /\ Len(IntPart(u)) + Len(FracPart(u)) > 0
    /\ Len(FracPart(u)) <= 1

\* The value of float text, in tenths.
TenthsOfText(s) ==
    LET u == Unsigned(s) IN
    Sign(s) * (10 * DigitsVal(IntPart(u)) + DigitsVal(FracPart(u)))

\* Byte-wise comparison of two strings (SQLite's BINARY collation, Python's <=).
RECURSIVE LexLeq(_, _)
LexLeq(a, b) ==
    IF a = <<>> THEN TRUE
    ELSE IF b = <<>> THEN FALSE
    ELSE IF Ord(a[1]) # Ord(b[1]) THEN Ord(a[1]) < Ord(b[1])
    ELSE LexLeq(Tail(a), Tail(b))

\* ------------------------------------------------------------ the CSV file

Cols == <<"date", "open", "high", "low", "close", "adj_close", "volume">>

PriceCols == <<"open", "high", "low", "close", "adj_close">>

D0930 == <<"2", "0", "2", "0", "-", "0", "9", "-", "3", "0">>
D1001 == <<"2", "0", "2", "0", "-", "1", "0", "-", "0", "1">>
D1002 == <<"2", "0", "2", "0", "-", "1", "0", "-", "0", "2">>
D1003 == <<"2", "0", "2", "0", "-", "1", "0", "-", "0", "3">>

\* The date arguments of GET /api/stocks/date/<date>.
Dates == {D0930, D1001, D1003}

CsvRow(d, o, h, l, c, a, v) ==
    [date |-> d, open |-> o, high |-> h, low |-> l, close |-> c,
     adj_close |-> a, volume |-> v]

\* The lines a CSV file is made of: a clean row; a row of an earlier date with
\* an integer price and a negative volume; a second row for that date with an
\* empty price and a fractional volume; a row with text for a price and for
\* the volume.
FileRows ==
    { CsvRow(D1001, <<"1", "0", ".", "5">>, <<"1", "1", ".", "4">>,
             <<"9", ".", "1">>, <<"9", ".", "5">>, <<"9", ".", "5">>, <<"7">>),
      CsvRow(D0930, <<"1", "0">>, <<"1", "1", ".", "4">>,
             <<"9", ".", "1">>, <<"9", ".", "5">>, <<"9", ".", "5">>, <<"-", "3">>),
      CsvRow(D0930, <<>>, <<"1", "1", ".", "4">>,
             <<"9", ".", "1">>, <<"9", ".", "5">>, <<"9", ".", "5">>,
             <<"1", ".", "5">>),
      CsvRow(D1002, <<"1", "0", ".", "5">>, <<"1", "1", ".", "4">>,
             <<"9", ".", "1">>, <<"9", ".", "5">>, <<"x">>, <<"x">>) }

RECURSIVE SeqsUpTo(_, _)
SeqsUpTo(S, n) ==
    IF n = 0 THEN {<<>>}
    ELSE LET shorter == SeqsUpTo(S, n - 1) IN
         shorter \cup {Append(s, x) : s \in {t \in shorter : Len(t) = n - 1}, x \in S}

\* The CSV files: up to MaxRows lines, in any order, no line twice.
Files ==
    {f \in SeqsUpTo(FileRows, MaxRows) :
        \A i, j \in 1..Len(f) : i # j => f[i] # f[j]}

\* --------------------------------------------- data_ingestion.py: read_csv

\* The dtype pandas infers for a column: int64 when every field is an integer,
\* float64 when every field is a number or empty, object (strings) otherwise.
ColumnDtype(file, c) ==
    LET toks == {file[i][c] : i \in 1..Len(file)} IN
    IF toks = {} THEN "object"
    ELSE IF \A t \in toks : IsIntText(t) THEN "int64"
    ELSE IF \A t \in toks : t = <<>> \/ IsFloatText(t) THEN "float64"
    ELSE "object"

Value(k, n, s) == [k |-> k, n |-> n, s |-> s]

\* One field of the frame: an empty field is NaN in every non-integer column.
ReadField(tok, dtype) ==
    IF dtype = "int64" THEN Value("int64", IntOfText(tok), <<>>)
    ELSE IF tok = <<>> THEN Value("NaN", 0, <<>>)
    ELSE IF dtype = "float64" THEN Value("float64", TenthsOfText(tok), <<>>)
    ELSE Value("str", 0, tok)

read_csv(file) ==
    [i \in 1..Len(file) |->
        [c \in {Cols[j] : j \in 1..Len(Cols)} |->
            ReadField(file[i][c], ColumnDtype(file, c))]]

\* What read_csv gives for each file.
Frames == [file \in Files |-> read_csv(file)]

\* ----------------------------------------------- data_ingestion.py: to_sql

\* The SQLite value to_sql binds for a field of the frame.
SqlValue(v) ==
    CASE v.k = "int64"   -> Value("INTEGER", v.n, <<>>)
      [] v.k = "float64" -> Value("REAL", v.n, <<>>)
      [] v.k = "str"     -> Value("TEXT", 0, v.s)
      [] v.k = "NaN"     -> Value("NULL", 0, <<>>)

SqlRows(frame) ==
    [i \in 1..Len(frame) |-> [c \in DOMAIN frame[i] |-> SqlValue(frame[i][c])]]

\* pltr.db: the file, whether it holds a table `stocks`, and the table's rows
\* in storage order.
Store(f, e, rows) == [file |-> f, exists |-> e, rows |-> rows]

\* A connection that starts from a fresh database file every time.
ConnectedAnew(st) == Store("valid", FALSE, <<>>)

\* Opening a connection creates the database file when there is none.
Connected(st) == IF st.file = "missing" THEN Store("valid", FALSE, <<>>) ELSE st

\* if_exists='append': the table is left as it is.
DropTableKept(st) == st

\* if_exists='replace': DROP TABLE stocks when the table exists.
DropTable(st) == Store(st.file, FALSE, <<>>)

\* CREATE TABLE stocks (...).
CreateTable(st) == Store(st.file, TRUE, <<>>)

\* INSERT INTO stocks ... of every row of the frame, in one transaction.
InsertRows(st, frame) == Store(st.file, st.exists, st.rows \o SqlRows(frame))

\* ------------------------------------------------- routes.py: conversions

\* What float(x) and int(x) give: a value, or the exception they raise.
Returned(k, n) == [ok |-> TRUE, k |-> k, n |-> n, exc |-> "none"]

Raised(exc) == [ok |-> FALSE, k |-> "none", n |-> 0, exc |-> exc]

\* row[c] as sqlite3 returns it, without float().
PyFloatOmitted(cell) ==
    CASE cell.k = "INTEGER" -> Returned("int", cell.n)
      [] cell.k = "REAL"    -> Returned("float", cell.n)
      [] cell.k = "TEXT"    -> Returned("str", 0)
      [] cell.k = "NULL"    -> Returned("None", 0)

\* float(row[c]) on the value sqlite3 returns for a cell.
PyFloat(cell) ==
    CASE cell.k = "INTEGER" -> Returned("float", 10 * cell.n)
      [] cell.k = "REAL"    -> Returned("float", cell.n)
      [] cell.k = "TEXT"    -> IF IsFloatText(cell.s)
                               THEN Returned("float", TenthsOfText(cell.s))
                               ELSE Raised("ValueError")
      [] cell.k = "NULL"    -> Raised("TypeError")

\* Truncation toward zero of a number of tenths.
Trunc(n) == IF n >= 0 THEN n \div 10 ELSE -((-n) \div 10)

\* int(row[c]) on the value sqlite3 returns for a cell.
PyInt(cell) ==
    CASE cell.k = "INTEGER" -> Returned("int", cell.n)
      [] cell.k = "REAL"    -> Returned("int", Trunc(cell.n))
      [] cell.k = "TEXT"    -> IF IsIntText(cell.s)
                               THEN Returned("int", IntOfText(cell.s))
                               ELSE Raised("ValueError")
      [] cell.k = "NULL"    -> Raised("TypeError")

\* The conversion the handlers apply to a column.
Coerce(row, c) == IF c = "volume" THEN PyInt(row[c]) ELSE PyFloat(row[c])

NumCols == PriceCols \o <<"volume">>

\* The columns whose conversion raises, by position in the dict literal.
Failing(row) == {j \in 1..Len(NumCols) : ~Coerce(row, NumCols[j]).ok}

\* The exception building stock_record raises: that of the first failing
\* column, the dict literal being evaluated top to bottom.
RecordError(row) ==
    Coerce(row, NumCols[CHOOSE j \in Failing(row) : \A k \in Failing(row) : j <= k]).exc

Num(r) == [k |-> r.k, n |-> r.n]

\* stock_record = {'date': row['date'], 'open': float(row['open']), ...}
stock_record(row) ==
    [date |-> row.date.s,
     open |-> Num(PyFloat(row.open)), high |-> Num(PyFloat(row.high)),
     low |-> Num(PyFloat(row.low)), close |-> Num(PyFloat(row.close)),
     adj_close |-> Num(PyFloat(row.adj_close)),
     volume |-> Num(PyInt(row.volume))]

\* ------------------------------------------------------ routes.py: queries

Perms(n) ==
    {p \in [1..n -> 1..n] : \A i, j \in 1..n : i # j => p[i] # p[j]}

\* SELECT * FROM stocks: the rows in storage order.
SelectUnordered(rows) == {rows}

\* SELECT * FROM stocks ORDER BY date: the results the query may return, the
\* order of rows with equal dates being left open by SQL.
SelectOrderByDate(rows) ==
    {[i \in 1..Len(rows) |-> rows[p[i]]] : p \in
        {q \in Perms(Len(rows)) :
            \A i \in 1..(Len(rows) - 1) :
                LexLeq(rows[q[i]].date.s, rows[q[i + 1]].date.s)}}

\* SELECT * FROM stocks, the WHERE clause left out.
SelectAnyDate(rows, date) == {rows[i] : i \in 1..Len(rows)}

\* SELECT * FROM stocks WHERE date = ?: the rows whose date equals the bound
\* parameter; fetchone() returns one of them.
SelectWhereDate(rows, date) ==
    {rows[i] : i \in {j \in 1..Len(rows) : rows[j].date.k = "TEXT" /\ rows[j].date.s = date}}

\* The sqlite3.Error conn.execute raises, "none" when the query runs.
ExecuteError(st) ==
    IF st.file = "corrupt" THEN "file is not a database"
    ELSE IF ~st.exists THEN "no such table: stocks"
    ELSE "none"

\* ---------------------------------------------------- routes.py: responses

NoRecord == [date |-> <<>>]

\* An f-string: its literal part and what is formatted into it.
Message(text, n, arg) == [text |-> text, n |-> n, arg |-> arg]

\* A response: the status code, the keys of the JSON object and their values
\* (a key that is not in `fields` is absent from the body).
NoResponse ==
    [status |-> 0, fields |-> {}, success |-> FALSE, data |-> NoRecord,
     list |-> <<>>, count |-> 0, error |-> "", message |-> Message("", 0, <<>>),
     health |-> "", timestamp |-> ""]

\* jsonify({'success': True, 'data': stocks_list, 'count': ..., 'message': ...}), 200
StocksOk(list) ==
    [NoResponse EXCEPT !.status = 200,
        !.fields = {"success", "data", "count", "message"},
        !.success = TRUE, !.list = list, !.count = Len(list),
        !.message = Message("Successfully retrieved {} stock records", Len(list), <<>>)]

ErrorResponse(status, error, message) ==
    [NoResponse EXCEPT !.status = status,
        !.fields = {"success", "error", "message"},
        !.success = FALSE, !.error = error, !.message = message]

\* get_stocks, except sqlite3.Error as e.
StocksDatabaseError(e) == ErrorResponse(500, "Database error", Message(e, 0, <<>>))

\* get_stocks, except Exception as e.
StocksInternalError(e) ==
    ErrorResponse(500, "Internal server error", Message(e, 0, <<>>))

\* jsonify({'success': True, 'data': stock_record, 'message': ...}), 200
DateOk(rec, date) ==
    [NoResponse EXCEPT !.status = 200,
        !.fields = {"success", "data", "message"},
        !.success = TRUE, !.data = rec,
        !.message = Message("Successfully retrieved stock data for {}", 0, date)]

DateNotFound(date) ==
    ErrorResponse(404, "Not found", Message("No stock data found for date {}", 0, date))

\* get_stocks_by_date, except sqlite3.Error as e.
DateDatabaseError(e) == ErrorResponse(500, "Database Error", Message(e, 0, <<>>))

\* get_stocks_by_date, except Exception as e.
DateInternalError(e) ==
    ErrorResponse(500, "Internal Server Error", Message(e, 0, <<>>))

\* The readings datetime.now() may give.
Clock == {"t1", "t2"}

\* jsonify({'status': 'healthy', 'timestamp': datetime.now().isoformat()}), 200
HealthOk(now) ==
    [NoResponse EXCEPT !.status = 200, !.fields = {"status", "timestamp"},
        !.health = "healthy", !.timestamp = now]

\* ----------------------------------------------------- routes.py: handlers

\* How a handler ends: the state of its connection and the response.
Outcome(conn, resp) == [conn |-> conn, resp |-> resp]

\* The rows of a result whose conversion raises, by position.
BadRows(result) == {i \in 1..Len(result) : Failing(result[i]) # {}}

Converts(row) == Failing(row) = {}

\* The for loop with the conversion's exceptions caught per row: the rows
\* that do not convert are left out of the list.
StocksLoopSkipping(result) ==
    LET good == SelectSeq(result, Converts) IN
    Outcome("closed", StocksOk([i \in 1..Len(good) |-> stock_record(good[i])]))

\* The for loop of get_stocks over a fetched result, conn.close() and the
\* response; an exception leaves the loop before conn.close().
StocksLoop(result) ==
    IF BadRows(result) # {}
    THEN Outcome("open", StocksInternalError(RecordError(
            result[CHOOSE i \in BadRows(result) : \A k \in BadRows(result) : i <= k])))
    ELSE Outcome("closed", StocksOk([i \in 1..Len(result) |-> stock_record(result[i])]))

\* get_stocks from conn.execute on: the ways the handler may end on a store.
StocksOutcomes(st) ==
    IF ExecuteError(st) # "none"
    THEN {Outcome("open", StocksDatabaseError(ExecuteError(st)))}
    ELSE {StocksLoop(result) : result \in SelectOrderByDate(st.rows)}

\* get_stocks_by_date after conn.close(), on the row fetchone() returned.
DateRecord(row, date) ==
    IF Failing(row) # {} THEN DateInternalError(RecordError(row))
    ELSE DateOk(stock_record(row), date)

\* get_stocks_by_date from conn.execute on.
DateOutcomes(st, date) ==
    IF ExecuteError(st) # "none"
    THEN {Outcome("open", DateDatabaseError(ExecuteError(st)))}
    ELSE IF SelectWhereDate(st.rows, date) = {}
    THEN {Outcome("closed", DateNotFound(date))}
    ELSE {Outcome("closed", DateRecord(row, date)) : row \in SelectWhereDate(st.rows, date)}

\* What a request saw when its query ran: the store and the ingestion's step.
Seen(st, ing) == [store |-> st, ing |-> ing]

NoSeen == Seen(Store("none", FALSE, <<>>), "none")

Request(pc, kind, date, conn, seen, resp) ==
    [pc |-> pc, kind |-> kind, date |-> date, conn |-> conn, seen |-> seen,
     resp |-> resp]

NoRequest == Request("idle", "none", <<>>, "none", NoSeen, NoResponse)

VARIABLES store, ingPc, src, prior, req

vars == <<store, ingPc, src, prior, req>>

ingestion == <<ingPc, src, prior>>

\* store is pltr.db; ingPc is the step the ingestion script is at and src the
\* CSV file of its current (or last) run; prior records the number of rows the
\* table held when that run started.  req is the request being handled: the
\* handlers share nothing but the store, which they only read, so requests
\* are taken one at a time, each interleaved with the script's steps.

\* df: the frame read_csv made of the run's file.
df == Frames[src]

Init ==
    /\ store \in {Store("missing", FALSE, <<>>), Store("corrupt", FALSE, <<>>)}
    /\ ingPc = "idle"
    /\ src = <<>>
    /\ prior = 0
    /\ req = NoRequest

\* The script up to the first statement of to_sql: the file is read into the
\* frame, the engine connects, looks the table up and drops it.  A store that
\* is not a database makes the lookup raise, and the run ends there.
IngestStart ==
    /\ ingPc \in {"idle", "completed", "failed"}
    /\ \E file \in Files : src' = file
    /\ prior' = Len(store.rows)
    /\ IF store.file = "corrupt"
       THEN ingPc' = "failed" /\ UNCHANGED store
       ELSE ingPc' = "dropped" /\ store' = DropTable(Connected(store))
    /\ UNCHANGED req

IngestCreate ==
    /\ ingPc = "dropped"
    /\ store' = CreateTable(store)
    /\ ingPc' = "created"
    /\ UNCHANGED <<src, prior, req>>

IngestInsert ==
    /\ ingPc = "created"
    /\ store' = InsertRows(store, df)
    /\ ingPc' = "completed"
    /\ UNCHANGED <<src, prior, req>>

\* get_stocks up to conn = get_db_connection().
get_stocks_connect ==
    /\ req.pc = "idle"
    /\ req' = Request("connected", "stocks", <<>>, "open", NoSeen, NoResponse)
    /\ store' = Connected(store)
    /\ UNCHANGED ingestion

\* get_stocks from conn.execute(query) to its return.
get_stocks ==
    /\ req.pc = "connected"
    /\ req.kind = "stocks"
    /\ \E o \in StocksOutcomes(store) :
        req' = Request("done", "stocks", <<>>, o.conn, Seen(store, ingPc), o.resp)
    /\ UNCHANGED <<store, ingestion>>

\* get_stocks_by_date(date) up to conn = get_db_connection().
get_stocks_by_date_connect ==
    /\ req.pc = "idle"
    /\ \E date \in Dates :
        req' = Request("connected", "date", date, "open", NoSeen, NoResponse)
    /\ store' = Connected(store)
    /\ UNCHANGED ingestion

\* get_stocks_by_date(date) from conn.execute(query, (date,)) to its return.
get_stocks_by_date ==
    /\ req.pc = "connected"
    /\ req.kind = "date"
    /\ \E o \in DateOutcomes(store, req.date) :
        req' = Request("done", "date", req.date, o.conn, Seen(store, ingPc),
                           o.resp)
    /\ UNCHANGED <<store, ingestion>>

\* A health check that probes the store: it connects, runs a query and
\* answers 500 when the query fails.
health_check_probing ==
    /\ req.pc = "idle"
    /\ \E now \in Clock :
        req' = Request("done", "health", <<>>, "open", Seen(store, ingPc),
                       IF ExecuteError(store) # "none"
                       THEN StocksDatabaseError(ExecuteError(store))
                       ELSE HealthOk(now))
    /\ UNCHANGED <<store, ingestion>>

\* health_check: no connection is opened.
health_check ==
    /\ req.pc = "idle"
    /\ \E now \in Clock :
        req' = Request("done", "health", <<>>, "none", Seen(store, ingPc),
                           HealthOk(now))
    /\ UNCHANGED <<store, ingestion>>

\* The response has been sent; the worker takes the next request.
Return ==
    /\ req.pc = "done"
    /\ req' = NoRequest
    /\ UNCHANGED <<store, ingestion>>

Ingest == IngestStart \/ IngestCreate \/ IngestInsert

Api ==
    \/ get_stocks_connect
    \/ get_stocks
    \/ get_stocks_by_date_connect
    \/ get_stocks_by_date
    \/ health_check
    \/ Return

Next == Ingest \/ Api

Spec == Init /\ [][Next]_vars

\* ------------------------------------------------------------------ claims

Done(kind) == req.pc = "done" /\ req.kind = kind

\* The table the request's query ran on.
SeenRows == req.seen.store.rows

Readable == ExecuteError(req.seen.store) = "none"

\* The rows of that table with the request's date.
Matching == {SeenRows[i] : i \in {j \in 1..Len(SeenRows) : SeenRows[j].date.s = req.date}}

IsNumber(cell) ==
    \/ cell.k \in {"INTEGER", "REAL"}
    \/ cell.k = "TEXT" /\ IsFloatText(cell.s)

\* The number a cell holds, in tenths.
NumTenths(cell) ==
    CASE cell.k = "INTEGER" -> 10 * cell.n
      [] cell.k = "REAL"    -> cell.n
      [] cell.k = "TEXT"    -> TenthsOfText(cell.s)

\* A volume that is a non-negative whole number.
IsCount(cell) ==
    \/ cell.k = "INTEGER" /\ cell.n >= 0
    \/ cell.k = "REAL" /\ cell.n >= 0 /\ cell.n % 10 = 0
    \/ cell.k = "TEXT" /\ IsIntText(cell.s) /\ IntOfText(cell.s) >= 0

WellFormed(row) ==
    /\ \A j \in 1..Len(PriceCols) : IsNumber(row[PriceCols[j]])
    /\ IsCount(row.volume)

\* A record of a response carries the date and the numbers of a row.
SameRecord(rec, row) ==
    /\ rec.date = row.date.s
    /\ \A j \in 1..Len(PriceCols) : rec[PriceCols[j]].n = NumTenths(row[PriceCols[j]])
    /\ 10 * rec.volume.n = NumTenths(row.volume)

FloatsAndInt(rec) ==
    /\ \A j \in 1..Len(PriceCols) : rec[PriceCols[j]].k = "float"
    /\ rec.volume.k = "int"

ExactRecord ==
    /\ req.resp.status = 200
    /\ req.resp.success
    /\ "data" \in req.resp.fields
    /\ \E row \in Matching : SameRecord(req.resp.data, row)
    /\ FloatsAndInt(req.resp.data)
    /\ req.resp.data.volume.n >= 0

\* C1 as stated: for every date of a row of the table, the date endpoint
\* answers 200 with exactly the record ingested for it, prices as floats and
\* the volume as a non-negative integer.
C1_AsStated == (Done("date") /\ Readable /\ Matching # {}) => ExactRecord

\* C1, amended: when every row of the table with date d has numeric prices and
\* a volume that is a non-negative whole number, GET /api/stocks/date/d
\* answers 200, success=true, with the date and numbers of such a row, the
\* prices as floats and the volume as a non-negative integer.
C1_WellFormedRecord ==
    (Done("date") /\ Readable /\ Matching # {} /\ \A row \in Matching : WellFormed(row))
        => ExactRecord

\* A date request answered 200 from a row whose adjusted close and volume are
\* stored as text.
C1_Witness ==
    /\ Done("date")
    /\ req.resp.status = 200
    /\ \E row \in Matching : row.adj_close.k = "TEXT" /\ row.volume.k = "TEXT"
    /\ \A row \in Matching : WellFormed(row)

\* C2: a date that matches no row of an existing, readable table is answered
\* 404, success=false, error "Not found", message "No stock data found for
\* date d", never 200 or 500.
C2_NotFound ==
    (Done("date") /\ Readable /\ Matching = {}) =>
        /\ req.resp.status = 404
        /\ req.resp.fields = {"success", "error", "message"}
        /\ ~req.resp.success
        /\ req.resp.error = "Not found"
        /\ req.resp.message = Message("No stock data found for date {}", 0, req.date)

\* A date request answered 404 on a table that holds rows of other dates.
C2_Witness ==
    /\ Done("date")
    /\ req.resp.status = 404
    /\ Len(SeenRows) >= 2
    /\ req.date = D1003

Sorted(list) ==
    \A i \in 1..(Len(list) - 1) : LexLeq(list[i].date, list[i + 1].date)

\* The record a row of the table becomes: its date, its prices, its volume
\* without the fraction.
RecordOfRow(rec, row) ==
    /\ rec.date = row.date.s
    /\ \A j \in 1..Len(PriceCols) : rec[PriceCols[j]].n = NumTenths(row[PriceCols[j]])
    /\ rec.volume.n = Trunc(NumTenths(row.volume))

\* C3: a successful GET /api/stocks answers 200 with a list that holds every
\* row of the table exactly once, as long as `count` says, sorted
\* non-decreasing by the date string, whatever the storage order.
C3_AllRowsSorted ==
    (Done("stocks") /\ req.resp.status = 200) =>
        /\ "data" \in req.resp.fields /\ "count" \in req.resp.fields
        /\ req.resp.count = Len(req.resp.list)
        /\ Len(req.resp.list) = Len(SeenRows)
        /\ Sorted(req.resp.list)
        /\ \E p \in Perms(Len(SeenRows)) :
              \A i \in 1..Len(SeenRows) : RecordOfRow(req.resp.list[i], SeenRows[p[i]])

\* GET /api/stocks answered 200 on a table stored out of date order.
C3_Witness ==
    /\ Done("stocks")
    /\ req.resp.status = 200
    /\ Len(SeenRows) >= 2
    /\ ~LexLeq(SeenRows[1].date.s, SeenRows[2].date.s)

\* A cell of the table holds what the field of the file says.
CellOfField(cell, tok) ==
    CASE cell.k = "NULL"    -> tok = <<>>
      [] cell.k = "INTEGER" -> IsIntText(tok) /\ IntOfText(tok) = cell.n
      [] cell.k = "REAL"    -> IsFloatText(tok) /\ TenthsOfText(tok) = cell.n
      [] cell.k = "TEXT"    -> tok = cell.s /\ tok # <<>>

\* C4: ingestion replaces: the run discards the table it finds, and once a
\* run has completed the table holds exactly the rows of that run's file, in
\* the file's order, and nothing of earlier runs (N rows, then a file of M
\* rows: M rows, not N+M).
C4_FullReplace ==
    /\ ingPc = "dropped" => ~store.exists /\ store.rows = <<>>
    /\ ingPc = "completed" =>
        /\ store.file = "valid" /\ store.exists
        /\ Len(store.rows) = Len(src)
        /\ \A i \in 1..Len(src) : \A j \in 1..Len(Cols) :
              CellOfField(store.rows[i][Cols[j]], src[i][Cols[j]])

\* A run of one row has completed on a table that held two rows.
C4_Witness == ingPc = "completed" /\ prior = 2 /\ Len(src) = 1 /\ Len(store.rows) = 1

\* C5: GET /api/health answers 200 with status "healthy" and a timestamp in
\* every state of the store, without opening a connection.
C5_AlwaysHealthy ==
    /\ req.pc = "idle" => ENABLED health_check
    /\ Done("health") =>
        /\ req.resp.status = 200
        /\ req.resp.fields = {"status", "timestamp"}
        /\ req.resp.health = "healthy"
        /\ req.resp.timestamp \in Clock
        /\ req.conn = "none"

\* The health check answered while the store is not a database.
C5_Witness == Done("health") /\ req.seen.store.file = "corrupt" /\ req.resp.status = 200

\* C6 as stated: on both data endpoints a store error is answered 500 with
\* error "Database error" and any other exception 500 with error "Internal
\* server error", the same labels on both.
C6_SameLabels ==
    ((Done("stocks") \/ Done("date")) /\ req.resp.status = 500) =>
        /\ req.resp.fields = {"success", "error", "message"}
        /\ ~req.resp.success
        /\ req.resp.error = (IF Readable THEN "Internal server error" ELSE "Database error")

TableOf(st) == <<st.exists, st.rows>>

\* C7: no request of the API changes the table, and nothing of a request
\* outlives it: a handler starts from the same state whatever came before.
C7_ReadOnly ==
    /\ [](req.pc = "idle" => req = NoRequest)
    /\ [][Api => TableOf(store)' = TableOf(store)]_vars

\* A request has been answered on a table that holds rows, and the table is
\* still the one it read.
C7_Witness ==
    /\ req.pc = "done" /\ req.kind \in {"stocks", "date"}
    /\ store.rows # <<>>
    /\ store = req.seen.store

\* C8 as stated: no response of a data endpoint is produced while the
\* request's connection is open.
C8_ClosedBeforeResponse ==
    (Done("stocks") \/ Done("date")) => req.conn = "closed"

\* C9: between the drop and the insert of a run that replaces a table with
\* rows by a file with rows, the table is neither the old one nor the new one
\* (it is absent, then empty); a GET /api/stocks whose query runs then is
\* answered 500 or with an empty list, and neither side waits for the other.
C9_MidReplacement ==
    /\ (ingPc \in {"dropped", "created"} /\ prior > 0 /\ Len(src) > 0) =>
          /\ Len(store.rows) # prior
          /\ store.rows # SqlRows(df)
          /\ ~store.exists \/ store.rows = <<>>
    /\ (ingPc \in {"dropped", "created"} /\ req.pc = "connected" /\ req.kind = "stocks")
          => ENABLED get_stocks
    /\ (ingPc = "dropped" => ENABLED IngestCreate)
    /\ (ingPc = "created" => ENABLED IngestInsert)
    /\ (Done("stocks") /\ req.seen.ing = "dropped") =>
          req.resp.status = 500 /\ req.resp.error = "Database error"
    /\ (Done("stocks") /\ req.seen.ing = "created") =>
          req.resp.status = 200 /\ req.resp.list = <<>>

\* GET /api/stocks answered 500 by a query that ran after the drop of a table
\* with rows and before the insert of a file with rows.
C9_Witness ==
    /\ Done("stocks")
    /\ req.seen.ing = "dropped"
    /\ ingPc = "dropped" /\ prior > 0 /\ Len(src) > 0
    /\ req.resp.status = 500

\* C10: on the data endpoints success=true goes with 200, `data` with
\* success=true and `error` with success=false; GET /api/stocks answers 500
\* without data when the conversion of any row fails, never a shorter list, and
\* 200 with data=[] and count=0 on an empty table.
C10_AllOrNothing ==
    /\ (Done("stocks") \/ Done("date")) =>
        /\ req.resp.success <=> req.resp.status = 200
        /\ "data" \in req.resp.fields <=> req.resp.success
        /\ "error" \in req.resp.fields <=> ~req.resp.success
    /\ (Done("stocks") /\ Readable) =>
        /\ (\E i \in 1..Len(SeenRows) : Failing(SeenRows[i]) # {}) =>
              req.resp.status = 500 /\ "data" \notin req.resp.fields
        /\ "data" \in req.resp.fields => Len(req.resp.list) = Len(SeenRows)
        /\ SeenRows = <<>> =>
              req.resp.status = 200 /\ req.resp.list = <<>> /\ req.resp.count = 0

\* GET /api/stocks answered 500 on a table with a row that converts and a row
\* that does not.
C10_Witness ==
    /\ Done("stocks")
    /\ req.resp.status = 500
    /\ Readable
    /\ \E i \in 1..Len(SeenRows) : Failing(SeenRows[i]) = {}
    /\ \E i \in 1..Len(SeenRows) : Failing(SeenRows[i]) # {}

====
